---- MODULE Spec2Model ----
(***************************************************************************)
(* Word formatting checker (app.py): the text locator                      *)
(* find_text_in_document, the rule evaluator check_specific_formatting,    *)
(* the colour classifier is_color_in_range and the scan orchestrator       *)
(* check_comprehensive_formatting.                                         *)
(*                                                                         *)
(* Texts are TLA+ strings; Len, SubSeq and \o act on them as on Python     *)
(* str.  A Python None is the tag "None" for enumerated attributes and the *)
(* empty tuple << >> for numeric, tuple and string attributes.  An         *)
(* attribute whose accessor raises is listed in the object's `raises` set. *)
(***************************************************************************)
EXTENDS Integers, Sequences, FiniteSets, TLC

VARIABLES doc, pc, i, results, found_terms, found_instances,
          search_text, term, run, paragraph, format_result, check_calls,
          previous, rgb_input, name_input, in_range, request, response

vars == <<doc, pc, i, results, found_terms, found_instances,
          search_text, term, run, paragraph, format_result, check_calls,
          previous, rgb_input, name_input, in_range, request, response>>

\* the report of an earlier scan of the same document
scan_vars == <<previous>>

\* the arguments and the result of a call of is_color_in_range
color_vars == <<rgb_input, name_input, in_range>>

\* the upload and the response of the route /check-comprehensive-formatting
route_vars == <<request, response>>

(***************************************************************************)
(* Python str values.  The texts that are searched (searchedWord,          *)
(* run.text, font names) are sequences of one-character strings, written   *)
(* Chars("Bold1"); the check kinds and the messages are TLA+ strings, on   *)
(* which Len, SubSeq and \o act as on a Python str.                        *)
(***************************************************************************)
UpperLetters == "ABCDEFGHIJKLMNOPQRSTUVWXYZ"

LowerLetters == "abcdefghijklmnopqrstuvwxyz"

CharAt(s, k) == SubSeq(s, k, k)

\* the characters of the string literal s
Chars(s) == [k \in 1..Len(s) |-> CharAt(s, k)]

\* the lowercase letter of every uppercase ASCII letter
LowerOf == [c \in {CharAt(UpperLetters, k) : k \in 1..26} |->
               CharAt(LowerLetters, CHOOSE k \in 1..26 : CharAt(UpperLetters, k) = c)]

\* the uppercase letter of every lowercase ASCII letter
UpperOf == [c \in {CharAt(LowerLetters, k) : k \in 1..26} |->
               CharAt(UpperLetters, CHOOSE k \in 1..26 : CharAt(LowerLetters, k) = c)]

UpperSet == DOMAIN LowerOf

LowerSet == DOMAIN UpperOf

\* str.lower() on one character (ASCII letters; other characters unchanged)
LowerChar(c) == IF c \in UpperSet THEN LowerOf[c] ELSE c

\* str.upper() on one character
UpperChar(c) == IF c \in LowerSet THEN UpperOf[c] ELSE c

\* s.lower()
Lower(s) == [k \in 1..Len(s) |-> LowerChar(s[k])]

\* s.upper()
Upper(s) == [k \in 1..Len(s) |-> UpperChar(s[k])]

\* s.replace(" ", "")
RemoveSpaces(s) == SelectSeq(s, LAMBDA c : c # " ")

\* sub in s
Contains(sub, s) ==
    \E k \in 0..(Len(s) - Len(sub)) : \A j \in 1..Len(sub) : s[k + j] = sub[j]

\* " " in s
HasSpace(s) == \E k \in 1..Len(s) : s[k] = " "

\* s.startswith(prefix), on a check kind
StartsWith(s, prefix) ==
    Len(prefix) <= Len(s) /\ SubSeq(s, 1, Len(prefix)) = prefix

(***************************************************************************)
(* FORMATTING_TERMS                                                        *)
(***************************************************************************)
T(w, f) == [searchedWord |-> Chars(w), formatCheck |-> f]

FORMATTING_TERMS == <<
    T("Bold1", "bold"),
    T("Italic1", "italic"),
    T("Underline1", "underline"),
    T("Underline2 Double", "underlineDouble"),
    T("Underline3 Dotted", "underlineDotted"),
    T("Underline4 Red", "underlineRed"),
    T("Superscript", "superscript"),
    T("Subscript", "subscript"),
    T("Strikethrough1", "strikethrough"),
    T("Strikethrough2 Double", "strikethroughDouble"),
    T("SMALL CAPS", "smallCaps"),
    T("10 point", "fontSize10"),
    T("12 point", "fontSize12"),
    T("15 point", "fontSize15"),
    T("26 point", "fontSize26"),
    T("Arial", "fontArial"),
    T("Bookman Old Style", "fontBookman"),
    T("Comic Sans Ms", "fontComicSans"),
    T("Impact", "fontImpact"),
    T("Tahoma", "fontTahoma"),
    T("Verdana", "fontVerdana"),
    T("Font Color Green", "colorGreen"),
    T("Font Color Dark Blue", "colorDarkBlue"),
    T("Highlight Turquoise", "highlightTurquoise"),
    T("Character Spacing Expanded at 5", "spacingExpanded5"),
    T("Character Spacing Expanded at 10", "spacingExpanded10"),
    T("Character Spacing Condensed at 2", "spacingCondensed2"),
    T("Align Right", "alignRight"),
    T("Align Center", "alignCenter"),
    T("Align Left", "alignLeft") >>

(***************************************************************************)
(* Document objects (python-docx collaborator): a document is a sequence   *)
(* of paragraphs, a paragraph a sequence of runs plus its alignment, a run *)
(* its text plus its character formatting.                                 *)
(***************************************************************************)
\* paragraph.text: the concatenation of the texts of the paragraph's runs
RECURSIVE JoinRunTexts(_, _)
JoinRunTexts(runs, k) ==
    IF k > Len(runs) THEN << >> ELSE runs[k].text \o JoinRunTexts(runs, k + 1)

ParagraphText(par) == JoinRunTexts(par.runs, 1)

\* reading attribute attr of obj raises instead of returning a value
Raises(obj, attr) == attr \in obj.raises

(***************************************************************************)
(* find_text_in_document                                                   *)
(***************************************************************************)
\* the dict appended to found_instances for run number k (1-based) of par
Instance(par, para_idx, k) ==
    [paragraph     |-> par,
     paragraph_idx |-> para_idx,
     run           |-> par.runs[k],
     run_idx       |-> k - 1,
     text          |-> par.runs[k].text]

\* the exact search without .lower() on the run text
ExactRunInstancesCased(par, para_idx, search_lower) ==
    LET hits == SelectSeq([k \in 1..Len(par.runs) |-> k],
                          LAMBDA k : Contains(search_lower, par.runs[k].text))
    IN  [n \in 1..Len(hits) |-> Instance(par, para_idx, hits[n])]

\* inner loop "for run_idx, run in enumerate(paragraph.runs)" of the exact
\* search: the runs whose lowercased text contains search_lower, in order
ExactRunInstances(par, para_idx, search_lower) ==
    LET hits == SelectSeq([k \in 1..Len(par.runs) |-> k],
                          LAMBDA k : Contains(search_lower, Lower(par.runs[k].text)))
    IN  [n \in 1..Len(hits) |-> Instance(par, para_idx, hits[n])]

\* the no-space search without .replace(" ", "") on the run text
NoSpaceRunInstancesSpaced(par, para_idx, no_space_search) ==
    LET hits == SelectSeq([k \in 1..Len(par.runs) |-> k],
                          LAMBDA k : Contains(no_space_search, Lower(par.runs[k].text)))
    IN  [n \in 1..Len(hits) |-> Instance(par, para_idx, hits[n])]

\* inner loop of the no-space search: run.text.replace(" ", "").lower()
NoSpaceRunInstances(par, para_idx, no_space_search) ==
    LET hits == SelectSeq([k \in 1..Len(par.runs) |-> k],
                          LAMBDA k : Contains(no_space_search,
                                              Lower(RemoveSpaces(par.runs[k].text))))
    IN  [n \in 1..Len(hits) |-> Instance(par, para_idx, hits[n])]

\* the body of the loop with the no-space search before the exact search
ParagraphInstancesFallbackFirst(par, para_idx, st) ==
    LET paragraph_text  == Lower(ParagraphText(par))
        search_lower    == Lower(st)
        no_space_search == Lower(RemoveSpaces(st))
        exact    == IF Contains(search_lower, paragraph_text)
                    THEN ExactRunInstances(par, para_idx, search_lower)
                    ELSE << >>
        no_space == IF HasSpace(st)
                       /\ Contains(no_space_search, RemoveSpaces(paragraph_text))
                    THEN NoSpaceRunInstances(par, para_idx, no_space_search)
                    ELSE << >>
    IN  no_space \o exact

\* the body of the loop, recording the first run of a paragraph whose text
\* holds the phrase when no run of it does
ParagraphInstancesFirstRun(par, para_idx, st) ==
    LET paragraph_text  == Lower(ParagraphText(par))
        search_lower    == Lower(st)
        no_space_search == Lower(RemoveSpaces(st))
        exact    == IF Contains(search_lower, paragraph_text)
                    THEN ExactRunInstances(par, para_idx, search_lower)
                    ELSE << >>
        no_space == IF HasSpace(st)
                       /\ Contains(no_space_search, RemoveSpaces(paragraph_text))
                    THEN NoSpaceRunInstances(par, para_idx, no_space_search)
                    ELSE << >>
    IN  IF exact \o no_space = << >> /\ Contains(search_lower, paragraph_text)
        THEN <<Instance(par, para_idx, 1)>>
        ELSE exact \o no_space

\* body of "for para_idx, paragraph in enumerate(doc.paragraphs)"
ParagraphInstances(par, para_idx, st) ==
    LET paragraph_text  == Lower(ParagraphText(par))
        search_lower    == Lower(st)
        no_space_search == Lower(RemoveSpaces(st))
        exact    == IF Contains(search_lower, paragraph_text)
                    THEN ExactRunInstances(par, para_idx, search_lower)
                    ELSE << >>
        no_space == IF HasSpace(st)
                       /\ Contains(no_space_search, RemoveSpaces(paragraph_text))
                    THEN NoSpaceRunInstances(par, para_idx, no_space_search)
                    ELSE << >>
    IN  exact \o no_space

RECURSIVE FindFrom(_, _, _)
FindFrom(d, st, p) ==
    IF p > Len(d.paragraphs) THEN << >>
    ELSE ParagraphInstances(d.paragraphs[p], p - 1, st) \o FindFrom(d, st, p + 1)

find_text_in_document(d, st) == FindFrom(d, st, 1)

(***************************************************************************)
(* Rendering of values inside the f-strings of the verdicts                *)
(***************************************************************************)
HexDigits == "0123456789abcdef"

\* format spec :02x for a value in 0..255
Hex2(n) == CharAt(HexDigits, (n \div 16) + 1) \o CharAt(HexDigits, (n % 16) + 1)

\* str() of an optional string attribute (<< >> is None)
OptStr(v) == IF v = << >> THEN "None" ELSE v[1]

EmuPerPt == 12700

\* str() of the float Length.pt = emu / 12700, to one decimal place (every
\* size of the model is a multiple of a tenth of a point)
PtStr(emu) ==
    ToString(emu \div EmuPerPt) \o "." \o ToString((emu % EmuPerPt) \div (EmuPerPt \div 10))

\* s.replace(old, "") for a non-empty old
RECURSIVE RemoveAll(_, _)
RemoveAll(s, old) ==
    IF Len(s) = 0 THEN ""
    ELSE IF StartsWith(s, old) THEN RemoveAll(SubSeq(s, Len(old) + 1, Len(s)), old)
    ELSE CharAt(s, 1) \o RemoveAll(SubSeq(s, 2, Len(s)), old)

Digits == "0123456789"

IsDigit(c) == \E k \in 1..10 : CharAt(Digits, k) = c

DigitVal(c) == (CHOOSE k \in 1..10 : CharAt(Digits, k) = c) - 1

\* int(s) succeeds: a non-empty string of decimal digits (the kinds of the
\* model carry no sign, blank or underscore)
IsIntLiteral(s) == Len(s) > 0 /\ \A k \in 1..Len(s) : IsDigit(CharAt(s, k))

RECURSIVE IntOf(_)
\* int(s) for a string of decimal digits
IntOf(s) == IF Len(s) = 0 THEN 0
            ELSE 10 * IntOf(SubSeq(s, 1, Len(s) - 1)) + DigitVal(CharAt(s, Len(s)))

\* str.title() of a keyword of font_name_map (one lowercase word, or "")
Title(s) == IF Len(s) = 0 THEN "" ELSE UpperChar(CharAt(s, 1)) \o SubSeq(s, 2, Len(s))

(***************************************************************************)
(* rgb_to_hex and is_color_in_range.  An rgb value is << >> (None), a      *)
(* triple <<r, g, b>> (RGBColor) or <<"auto">> (a value without r, g, b).  *)
(***************************************************************************)
rgb_to_hex(rgb_color) ==
    IF rgb_color = << >> THEN "None"
    ELSE IF Len(rgb_color) # 3 THEN "None"
    ELSE "#" \o Hex2(rgb_color[1]) \o Hex2(rgb_color[2]) \o Hex2(rgb_color[3])

\* is_color_in_range with the bounds of the green region included
is_color_in_range_inclusive(rgb_color, target_color_name) ==
    IF rgb_color = << >> THEN FALSE
    ELSE IF Len(rgb_color) # 3 THEN FALSE
    ELSE LET r == rgb_color[1]
             g == rgb_color[2]
             b == rgb_color[3]
             name == Lower(Chars(target_color_name))
         IN  CASE name = Chars("green")     -> g >= 100 /\ r <= 150 /\ b <= 150
               [] name = Chars("darkblue")  -> b > 50 /\ r < 80 /\ g < 80 /\ b > r /\ b > g
               [] name = Chars("red")       -> r > 150 /\ g < 100 /\ b < 100
               [] name = Chars("blue")      -> b > 100 /\ r < 150 /\ g < 150
               [] name = Chars("turquoise") -> g > 150 /\ b > 150 /\ r < 120
               [] OTHER                     -> FALSE

is_color_in_range(rgb_color, target_color_name) ==
    IF rgb_color = << >> THEN FALSE
    ELSE IF Len(rgb_color) # 3 THEN FALSE
    ELSE LET r == rgb_color[1]
             g == rgb_color[2]
             b == rgb_color[3]
             name == Lower(Chars(target_color_name))
         IN  CASE name = Chars("green")     -> g > 100 /\ r < 150 /\ b < 150
               [] name = Chars("darkblue")  -> b > 50 /\ r < 80 /\ g < 80 /\ b > r /\ b > g
               [] name = Chars("red")       -> r > 150 /\ g < 100 /\ b < 100
               [] name = Chars("blue")      -> b > 100 /\ r < 150 /\ g < 150
               [] name = Chars("turquoise") -> g > 150 /\ b > 150 /\ r < 120
               [] OTHER                     -> FALSE

(***************************************************************************)
(* check_specific_formatting                                               *)
(***************************************************************************)
Verdict(c, m, d) == [correct |-> c, message |-> m, debug |-> d]

\* str(e) of the exception raised by reading attribute attr
AttrFault(attr) == "cannot read " \o attr

\* str(e) of the ValueError raised by int(s)
IntFault(s) == "invalid literal for int() with base 10: '" \o s \o "'"

\* the except clause: lines 250-255
ExceptVerdictPass(format_check, e) ==
    Verdict(TRUE, "Error checking " \o format_check \o ": " \o e, "Exception: " \o e)

ExceptVerdict(format_check, e) ==
    Verdict(FALSE, "Error checking " \o format_check \o ": " \o e, "Exception: " \o e)

\* the boolean branches judging "is not None" alone, without bool(v)
BoolBranchSet(format_check, r, attr, label, dbg) ==
    IF Raises(r, attr) THEN ExceptVerdict(format_check, AttrFault(attr))
    ELSE LET is_correct == r[attr] # "None"
         IN  Verdict(is_correct,
                     IF is_correct THEN label \o " formatting correct"
                                   ELSE label \o " formatting missing",
                     dbg \o " = " \o r[attr])

\* branches bold, italic, superscript, subscript, strikethrough, smallCaps:
\* bool(v) if v is not None else False
BoolBranch(format_check, r, attr, label, dbg) ==
    IF Raises(r, attr) THEN ExceptVerdict(format_check, AttrFault(attr))
    ELSE LET is_correct == IF r[attr] # "None" THEN r[attr] = "True" ELSE FALSE
         IN  Verdict(is_correct,
                     IF is_correct THEN label \o " formatting correct"
                                   ELSE label \o " formatting missing",
                     dbg \o " = " \o r[attr])

\* line 120: run.underline is None, True (single), False (the none style,
\* equal to WD_UNDERLINE.NONE) or a member of WD_UNDERLINE
\* the underline branch without the comparison with WD_UNDERLINE.NONE
UnderlineBranchAnyValue(format_check, r) ==
    IF Raises(r, "underline") THEN ExceptVerdict(format_check, AttrFault("underline"))
    ELSE LET is_correct == r.underline # "None"
         IN  Verdict(is_correct,
                     IF is_correct THEN "Underline formatting correct"
                                   ELSE "Underline formatting missing",
                     "run.underline = " \o r.underline)

UnderlineBranch(format_check, r) ==
    IF Raises(r, "underline") THEN ExceptVerdict(format_check, AttrFault("underline"))
    ELSE LET is_correct == r.underline # "None" /\ r.underline # "False"
         IN  Verdict(is_correct,
                     IF is_correct THEN "Underline formatting correct"
                                   ELSE "Underline formatting missing",
                     "run.underline = " \o r.underline)

UnderlineDoubleBranch(format_check, r) ==
    IF Raises(r, "underline") THEN ExceptVerdict(format_check, AttrFault("underline"))
    ELSE LET is_correct == r.underline = "DOUBLE"
         IN  Verdict(is_correct,
                     IF is_correct THEN "Double underline correct"
                     ELSE "Underline is " \o r.underline \o ", should be double",
                     "run.underline = " \o r.underline)

\* the font size branch comparing whole points
FontSizeBranchRounded(format_check, r) ==
    LET literal == RemoveAll(format_check, "fontSize") IN
    IF ~IsIntLiteral(literal) THEN ExceptVerdict(format_check, IntFault(literal))
    ELSE IF Raises(r, "size") THEN ExceptVerdict(format_check, AttrFault("size"))
    ELSE LET target_size == IntOf(literal)
             has_size    == r.size # << >> /\ r.size[1] # 0
             actual_str  == IF has_size THEN PtStr(r.size[1]) ELSE "None"
             is_correct  == has_size /\ r.size[1] \div EmuPerPt = target_size
         IN  Verdict(is_correct,
                     IF is_correct THEN ToString(target_size) \o "pt font size correct"
                     ELSE "Font size is " \o actual_str \o "pt, should be "
                          \o ToString(target_size) \o "pt",
                     "run.font.size = " \o actual_str \o "pt")

FontSizeBranch(format_check, r) ==
    LET literal == RemoveAll(format_check, "fontSize") IN
    IF ~IsIntLiteral(literal) THEN ExceptVerdict(format_check, IntFault(literal))
    ELSE IF Raises(r, "size") THEN ExceptVerdict(format_check, AttrFault("size"))
    ELSE LET target_size == IntOf(literal)
             \* a Length of 0 is falsy, as None is
             has_size    == r.size # << >> /\ r.size[1] # 0
             actual_str  == IF has_size THEN PtStr(r.size[1]) ELSE "None"
             is_correct  == has_size /\ r.size[1] = target_size * EmuPerPt
         IN  Verdict(is_correct,
                     IF is_correct THEN ToString(target_size) \o "pt font size correct"
                     ELSE "Font size is " \o actual_str \o "pt, should be "
                          \o ToString(target_size) \o "pt",
                     "run.font.size = " \o actual_str \o "pt")

\* font_name_map.get(format_check, "")
font_name_map(format_check) ==
    CASE format_check = "fontArial"     -> "arial"
      [] format_check = "fontBookman"   -> "bookman"
      [] format_check = "fontComicSans" -> "comic"
      [] format_check = "fontImpact"    -> "impact"
      [] format_check = "fontTahoma"    -> "tahoma"
      [] format_check = "fontVerdana"   -> "verdana"
      [] OTHER                          -> ""

\* the font branch without .lower() on the font name
FontBranchCased(format_check, r) ==
    IF Raises(r, "name") THEN ExceptVerdict(format_check, AttrFault("name"))
    ELSE LET target_font == font_name_map(format_check)
             actual_font == IF r.name # << >> /\ r.name[1] # ""
                            THEN Chars(r.name[1]) ELSE Chars("")
             is_correct  == Contains(Chars(target_font), actual_font)
         IN  Verdict(is_correct,
                     IF is_correct THEN Title(target_font) \o " font correct"
                     ELSE "Font is " \o OptStr(r.name) \o ", should contain " \o target_font,
                     "run.font.name = " \o OptStr(r.name))

FontBranch(format_check, r) ==
    IF Raises(r, "name") THEN ExceptVerdict(format_check, AttrFault("name"))
    ELSE LET target_font == font_name_map(format_check)
             actual_font == IF r.name # << >> /\ r.name[1] # ""
                            THEN Lower(Chars(r.name[1])) ELSE Chars("")
             is_correct  == Contains(Chars(target_font), actual_font)
         IN  Verdict(is_correct,
                     IF is_correct THEN Title(target_font) \o " font correct"
                     ELSE "Font is " \o OptStr(r.name) \o ", should contain " \o target_font,
                     "run.font.name = " \o OptStr(r.name))

ColorBranch(format_check, r, color_name, ok_msg, bad_msg) ==
    IF Raises(r, "rgb") THEN ExceptVerdict(format_check, AttrFault("rgb"))
    ELSE LET is_correct == is_color_in_range(r.rgb, color_name)
         IN  Verdict(is_correct,
                     IF is_correct THEN ok_msg ELSE bad_msg,
                     "font.color.rgb = " \o rgb_to_hex(r.rgb))

HighlightBranch(format_check, r) ==
    IF Raises(r, "highlight_color")
    THEN ExceptVerdict(format_check, AttrFault("highlight_color"))
    ELSE LET is_correct == r.highlight_color = "TURQUOISE"
         IN  Verdict(is_correct,
                     IF is_correct THEN "Turquoise highlight correct"
                     ELSE "Highlight color doesn't match turquoise",
                     "font.highlight_color = " \o r.highlight_color)

\* the spacing branch counting the check it cannot make as passed
SpacingBranchPassed ==
    Verdict(TRUE, "Character spacing check not available in python-docx",
            "Character spacing requires more advanced docx parsing")

SpacingBranch ==
    Verdict(FALSE, "Character spacing check not available in python-docx",
            "Character spacing requires more advanced docx parsing")

\* alignment_map with LEFT and RIGHT exchanged
alignment_map_mirrored(format_check) ==
    CASE format_check = "alignLeft"   -> "RIGHT"
      [] format_check = "alignCenter" -> "CENTER"
      [] format_check = "alignRight"  -> "LEFT"
      [] OTHER                        -> "None"

\* alignment_map.get(format_check): None for a key that is not in the map
alignment_map(format_check) ==
    CASE format_check = "alignLeft"   -> "LEFT"
      [] format_check = "alignCenter" -> "CENTER"
      [] format_check = "alignRight"  -> "RIGHT"
      [] OTHER                        -> "None"

AlignBranch(format_check, par) ==
    IF Raises(par, "alignment") THEN ExceptVerdict(format_check, AttrFault("alignment"))
    ELSE LET target_alignment == alignment_map(format_check)
             actual_alignment == par.alignment
             is_correct       == actual_alignment = target_alignment
         IN  Verdict(is_correct,
                     IF is_correct THEN RemoveAll(format_check, "align") \o " alignment correct"
                     ELSE "Alignment is " \o actual_alignment \o ", should be "
                          \o target_alignment,
                     "paragraph.alignment = " \o actual_alignment)

NotImplementedBranch(format_check) ==
    Verdict(FALSE, "Format check for " \o format_check \o " not implemented",
            "formatCheck = " \o format_check)

\* line 119: the kind of the plain underline check
is_underline_prefix(format_check) == StartsWith(format_check, "underline")

is_underline(format_check) == format_check = "underline"

check_specific_formatting(t, r, par) ==
    LET format_check == t.formatCheck IN
    IF format_check = "bold"
    THEN BoolBranch(format_check, r, "bold", "Bold", "run.bold")
    ELSE IF format_check = "italic"
    THEN BoolBranch(format_check, r, "italic", "Italic", "run.italic")
    ELSE IF is_underline(format_check)
    THEN UnderlineBranch(format_check, r)
    ELSE IF format_check = "underlineDouble"
    THEN UnderlineDoubleBranch(format_check, r)
    ELSE IF format_check = "superscript"
    THEN BoolBranch(format_check, r, "superscript", "Superscript", "run.font.superscript")
    ELSE IF format_check = "subscript"
    THEN BoolBranch(format_check, r, "subscript", "Subscript", "run.font.subscript")
    ELSE IF format_check = "strikethrough"
    THEN BoolBranch(format_check, r, "strike", "Strikethrough", "run.font.strike")
    ELSE IF format_check = "smallCaps"
    THEN BoolBranch(format_check, r, "small_caps", "Small caps", "run.font.small_caps")
    ELSE IF StartsWith(format_check, "fontSize")
    THEN FontSizeBranch(format_check, r)
    ELSE IF StartsWith(format_check, "font")
    THEN FontBranch(format_check, r)
    ELSE IF format_check = "colorGreen"
    THEN ColorBranch(format_check, r, "green", "Green font color correct",
                     "Font color doesn't match green range")
    ELSE IF format_check = "colorDarkBlue"
    THEN ColorBranch(format_check, r, "darkblue", "Dark blue font color correct",
                     "Font color doesn't match dark blue range")
    ELSE IF format_check = "highlightTurquoise"
    THEN HighlightBranch(format_check, r)
    ELSE IF StartsWith(format_check, "spacing")
    THEN SpacingBranch
    ELSE IF StartsWith(format_check, "align")
    THEN AlignBranch(format_check, par)
    ELSE NotImplementedBranch(format_check)

(***************************************************************************)
(* Score arithmetic: a percentage is an exact fraction <<num, den>> in     *)
(* lowest terms (the program computes it in floating point).               *)
(***************************************************************************)
RECURSIVE GCD(_, _)
GCD(a, b) == IF b = 0 THEN a ELSE GCD(b, a % b)

Frac(n, d) == LET g == GCD(n, d) IN <<n \div g, d \div g>>

FracAdd(x, y) == Frac(x[1] * y[2] + y[1] * x[2], x[2] * y[2])

FracDivInt(x, n) == Frac(x[1], x[2] * n)

\* (a / b) * 100
Percentage(a, b) == Frac(a * 100, b)

(***************************************************************************)
(* check_comprehensive_formatting, one action per loop iteration           *)
(***************************************************************************)
total_terms == Len(FORMATTING_TERMS)

\* lines 298-306
InitialResults ==
    [total_terms          |-> total_terms,
     found_count          |-> 0,
     format_correct_count |-> 0,
     part1_results        |-> << >>,
     part2_results        |-> << >>,
     overall_score        |-> <<0, 1>>,
     debug_info           |-> << >>]

NoTerm == [searchedWord |-> << >>, formatCheck |-> ""]

NoRun == [text |-> << >>, bold |-> "None", italic |-> "None", underline |-> "None",
          superscript |-> "None", subscript |-> "None", strike |-> "None",
          small_caps |-> "None", size |-> << >>, name |-> << >>, rgb |-> << >>,
          highlight_color |-> "None", raises |-> {}]

NoParagraph == [runs |-> << >>, alignment |-> "None", raises |-> {}]

NoVerdict == Verdict(FALSE, "", "")

\* no earlier scan
NoReport == [total_terms |-> 0]

NoScanBefore == previous = NoReport

\* no call of is_color_in_range
NoColorCall == rgb_input = << >> /\ name_input = "" /\ in_range = FALSE

\* no request to the route
NoRequest == [has_file |-> FALSE]

NoResponse == [status |-> 0]

NoRouteCall == request = NoRequest /\ response = NoResponse

\* line 321: is_found = len(found_instances) > 0
is_found_any(instances) == Len(instances) >= 0

is_found(instances) == Len(instances) > 0

\* lines 322-323: found_count after one search
found_count_always(count, found) == count + 1

found_count_after(count, found) == IF found THEN count + 1 ELSE count

\* one iteration of the PART 1 loop, lines 315-338
FindStep ==
    /\ pc = "part1"
    /\ i <= Len(FORMATTING_TERMS)
    /\ LET t           == FORMATTING_TERMS[i]
           search_word == t.searchedWord
           instances   == find_text_in_document(doc, search_word)
           found       == is_found(instances)
       IN  /\ term' = t
           /\ search_text' = search_word
           /\ found_instances' = instances
           /\ found_terms' = IF found
                             THEN Append(found_terms, [term |-> t, instances |-> instances])
                             ELSE found_terms
           /\ results' =
                [results EXCEPT
                   !.found_count = found_count_after(@, found),
                   !.part1_results =
                       Append(@, [word |-> search_word, found |-> found,
                                  instances_count |-> Len(instances)]),
                   !.debug_info =
                       Append(@, <<"Searched '", search_word, "': ",
                                   IF found THEN "FOUND" ELSE "NOT FOUND",
                                   " (", Len(instances), " instances)">>)]
    /\ i' = i + 1
    /\ pc' = IF i = Len(FORMATTING_TERMS) THEN "gate" ELSE "part1"
    /\ UNCHANGED <<doc, run, paragraph, format_result, check_calls>>
    /\ UNCHANGED <<scan_vars, color_vars, route_vars>>

\* line 343: the gate of PART 2
gate_some_found(res) == res.found_count > 0

gate(res) == res.found_count = res.total_terms

\* line 343, condition true: PART 2 starts
Part2Enter ==
    /\ pc = "gate"
    /\ gate(results)
    /\ pc' = IF Len(found_terms) = 0 THEN "score" ELSE "part2"
    /\ i' = 1
    /\ UNCHANGED <<doc, results, found_terms, found_instances, search_text, term,
                   run, paragraph, format_result, check_calls>>
    /\ UNCHANGED <<scan_vars, color_vars, route_vars>>

\* lines 374-375, condition false: PART 2 skipped
Part2Skip ==
    /\ pc = "gate"
    /\ ~gate(results)
    /\ pc' = "score"
    /\ UNCHANGED <<doc, i, results, found_terms, found_instances, search_text, term,
                   run, paragraph, format_result, check_calls>>
    /\ UNCHANGED <<scan_vars, color_vars, route_vars>>

\* line 353: first_instance = instances[0]
last_instance(instances) == instances[Len(instances)]

first_instance(instances) == instances[1]

\* one iteration of the PART 2 loop, lines 345-371
FormatStep ==
    /\ pc = "part2"
    /\ i <= Len(found_terms)
    /\ LET found_term == found_terms[i]
           t          == found_term.term
           instances  == found_term.instances
       IN  /\ term' = t
           /\ found_instances' = instances
           /\ IF Len(instances) > 0
              THEN LET first == first_instance(instances)
                       res   == check_specific_formatting(t, first.run, first.paragraph)
                   IN  /\ run' = first.run
                       /\ paragraph' = first.paragraph
                       /\ format_result' = res
                       /\ check_calls' = check_calls + 1
                       /\ results' =
                            [results EXCEPT
                               !.format_correct_count = IF res.correct THEN @ + 1 ELSE @,
                               !.part2_results =
                                   Append(@, [word         |-> t.searchedWord,
                                              format_check |-> t.formatCheck,
                                              correct      |-> res.correct,
                                              message      |-> res.message,
                                              debug        |-> res.debug])]
              ELSE UNCHANGED <<run, paragraph, format_result, check_calls, results>>
    /\ i' = i + 1
    /\ pc' = IF i = Len(found_terms) THEN "score" ELSE "part2"
    /\ UNCHANGED <<doc, found_terms, search_text>>
    /\ UNCHANGED <<scan_vars, color_vars, route_vars>>

\* lines 377-384
part1_percentage(res) == Percentage(res.found_count, res.total_terms)

part2_percentage(res) ==
    IF res.found_count = res.total_terms
    THEN Percentage(res.format_correct_count, res.total_terms)
    ELSE <<0, 1>>

\* line 380 without its parentheses: part1 + part2 / 2
overall_score_unbracketed(res) ==
    FracAdd(part1_percentage(res), FracDivInt(part2_percentage(res), 2))

overall_score_sum(res) == FracAdd(part1_percentage(res), part2_percentage(res))

overall_score(res) == FracDivInt(FracAdd(part1_percentage(res), part2_percentage(res)), 2)

Score ==
    /\ pc = "score"
    /\ results' = [results EXCEPT !.overall_score = overall_score(results)]
    /\ pc' = "done"
    /\ UNCHANGED <<doc, i, found_terms, found_instances, search_text, term,
                   run, paragraph, format_result, check_calls>>
    /\ UNCHANGED <<scan_vars, color_vars, route_vars>>

(***************************************************************************)
(* The documents scanned.  Every document holds one paragraph per term of  *)
(* FORMATTING_TERMS, as the practice file of                               *)
(* create_comprehensive_practice_file does, except for one focus term      *)
(* whose paragraph varies in text form, formatting and number of copies.   *)
(***************************************************************************)
\* a run as python-docx reports it when no formatting was applied
PlainRun(text) == [NoRun EXCEPT !.text = text]

RunAttributes == {"bold", "italic", "underline", "superscript", "subscript", "strike",
                  "small_caps", "size", "name", "rgb", "highlight_color"}

\* a run carrying the formatting that the kind fc asks for
RightRun(text, fc) ==
    [PlainRun(text) EXCEPT
        !.bold        = IF fc = "bold" THEN "True" ELSE "False",
        !.italic      = IF fc = "italic" THEN "True" ELSE "False",
        !.underline   = CASE fc = "underline"       -> "True"
                          [] fc = "underlineDouble" -> "DOUBLE"
                          [] fc = "underlineDotted" -> "DOTTED"
                          [] fc = "underlineRed"    -> "True"
                          [] OTHER                  -> "None",
        !.superscript = IF fc = "superscript" THEN "True" ELSE "None",
        !.subscript   = IF fc = "subscript" THEN "True" ELSE "None",
        !.strike      = IF fc = "strikethrough" THEN "True" ELSE "None",
        !.small_caps  = IF fc = "smallCaps" THEN "True" ELSE "None",
        !.size        = CASE fc = "fontSize10" -> <<10 * EmuPerPt>>
                          [] fc = "fontSize12" -> <<12 * EmuPerPt>>
                          [] fc = "fontSize15" -> <<15 * EmuPerPt>>
                          [] fc = "fontSize26" -> <<26 * EmuPerPt>>
                          [] OTHER             -> << >>,
        !.name        = CASE fc = "fontArial"     -> <<"Arial">>
                          [] fc = "fontBookman"   -> <<"Bookman Old Style">>
                          [] fc = "fontComicSans" -> <<"Comic Sans MS">>
                          [] fc = "fontImpact"    -> <<"Impact">>
                          [] fc = "fontTahoma"    -> <<"Tahoma">>
                          [] fc = "fontVerdana"   -> <<"Verdana">>
                          [] OTHER                -> << >>,
        !.rgb         = CASE fc = "colorGreen"    -> <<0, 176, 80>>
                          [] fc = "colorDarkBlue" -> <<0, 32, 96>>
                          [] fc = "underlineRed"  -> << >>
                          [] OTHER                -> << >>,
        !.highlight_color = IF fc = "highlightTurquoise" THEN "TURQUOISE" ELSE "None"]

\* a run whose every attribute is set, and set to something no kind asks for
WrongRun(text) ==
    [PlainRun(text) EXCEPT
        !.bold = "False", !.italic = "False", !.underline = "False",
        !.superscript = "False", !.subscript = "False", !.strike = "False",
        !.small_caps = "False", !.size = <<124 * (EmuPerPt \div 10)>>,
        !.name = <<"Courier New">>, !.rgb = <<0, 0, 0>>, !.highlight_color = "YELLOW"]

\* a run every attribute of which raises when read
FaultRun(text) == [PlainRun(text) EXCEPT !.raises = RunAttributes]

Profiles == {"unset", "right", "wrong", "fault"}

ProfileRun(text, fc, profile) ==
    CASE profile = "unset" -> PlainRun(text)
      [] profile = "right" -> RightRun(text, fc)
      [] profile = "wrong" -> WrongRun(text)
      [] profile = "fault" -> FaultRun(text)

ProfileParagraph(runs, fc, profile) ==
    [runs      |-> runs,
     alignment |-> CASE profile = "right" /\ fc = "alignLeft"   -> "LEFT"
                     [] profile = "right" /\ fc = "alignCenter" -> "CENTER"
                     [] profile = "right" /\ fc = "alignRight"  -> "RIGHT"
                     [] profile = "wrong"                       -> "JUSTIFY"
                     [] OTHER                                   -> "None",
     raises    |-> IF profile = "fault" THEN {"alignment"} ELSE {}]

\* the profile of the later copies of the focus phrase
Opposite(profile) == IF profile = "right" THEN "wrong" ELSE "right"

\* the number of paragraphs that hold the focus phrase is 0..MaxCopies
MaxCopies == 2

Forms == {"exact", "upper", "nospace", "split", "nospace_first"}

\* the first paragraph of the focus term
FocusParagraph(t, form, profile) ==
    LET w  == t.searchedWord
        fc == t.formatCheck
        h  == Len(w) \div 2
    IN  CASE form = "exact" ->
               ProfileParagraph(<<ProfileRun(w, fc, profile)>>, fc, profile)
          [] form = "upper" ->
               ProfileParagraph(<<ProfileRun(Upper(w), fc, profile)>>, fc, profile)
          [] form = "nospace" ->
               ProfileParagraph(<<ProfileRun(RemoveSpaces(w), fc, profile)>>, fc, profile)
          [] form = "split" ->
               ProfileParagraph(<<ProfileRun(SubSeq(w, 1, h), fc, profile),
                                  ProfileRun(SubSeq(w, h + 1, Len(w)), fc, profile)>>,
                                fc, profile)
          [] form = "nospace_first" ->
               ProfileParagraph(<<ProfileRun(RemoveSpaces(w), fc, Opposite(profile)),
                                  ProfileRun(w, fc, profile)>>, fc, profile)

FocusParagraphs(t, form, profile, copies) ==
    IF copies = 0 THEN << >>
    ELSE <<FocusParagraph(t, form, profile)>>
         \o [n \in 1..(copies - 1) |->
                ProfileParagraph(<<ProfileRun(t.searchedWord, t.formatCheck,
                                              Opposite(profile))>>,
                                 t.formatCheck, Opposite(profile))]

RECURSIVE BodyFrom(_, _, _, _, _, _, _)
\* the paragraphs of terms n..last; the focus term k (0 for none) gets
\* `copies` paragraphs, every other term one paragraph of profile `others`
BodyFrom(n, last, k, form, profile, copies, others) ==
    IF n > last THEN << >>
    ELSE LET t == FORMATTING_TERMS[n]
         IN  (IF n = k
              THEN FocusParagraphs(t, form, profile, copies)
              ELSE <<ProfileParagraph(<<ProfileRun(t.searchedWord, t.formatCheck, others)>>,
                                      t.formatCheck, others)>>)
             \o BodyFrom(n + 1, last, k, form, profile, copies, others)

\* a document that holds the first `last` terms only, each correctly formatted
PrefixDocument(last) ==
    [paragraphs |-> BodyFrom(1, last, 0, "exact", "right", 1, "right")]

\* a document that holds every term, all of them with the same profile
UniformDocument(profile) ==
    [paragraphs |-> BodyFrom(1, Len(FORMATTING_TERMS), 0, "exact", profile, 1, profile)]

\* a correctly formatted document but for the paragraphs of the focus term k
FocusDocument(k, form, profile, copies) ==
    [paragraphs |-> BodyFrom(1, Len(FORMATTING_TERMS), k, form, profile, copies, "right")]

EmptyDocument == [paragraphs |-> << >>]

\* bold, underlineDouble, smallCaps, fontSize12, fontComicSans, colorGreen,
\* highlightTurquoise, spacingExpanded5, alignRight
FocusTerms == {1, 4, 11, 13, 18, 22, 24, 25, 28}

\* the text form and the profile of a focus paragraph that is the only copy
SingleVariants ==
    ({"exact"} \X Profiles)
    \cup ({"upper", "nospace", "split"} \X {"right"})
    \cup ({"nospace_first"} \X {"right", "wrong"})

Documents ==
    {EmptyDocument}
    \cup {PrefixDocument(last) : last \in 1..Len(FORMATTING_TERMS)}
    \cup {UniformDocument(profile) : profile \in Profiles}
    \cup {FocusDocument(k, "exact", "right", 0) : k \in FocusTerms}
    \cup {FocusDocument(k, v[1], v[2], 1) : k \in FocusTerms, v \in SingleVariants}
    \cup {FocusDocument(k, "exact", profile, copies) :
              k \in FocusTerms, profile \in {"right", "wrong"}, copies \in 2..MaxCopies}

(***************************************************************************)
(* Specification of a scan                                                 *)
(***************************************************************************)
Init ==
    /\ doc \in Documents
    /\ pc = "part1"
    /\ i = 1
    /\ results = InitialResults
    /\ found_terms = << >>
    /\ found_instances = << >>
    /\ search_text = << >>
    /\ term = NoTerm
    /\ run = NoRun
    /\ paragraph = NoParagraph
    /\ format_result = NoVerdict
    /\ check_calls = 0
    /\ NoScanBefore
    /\ NoColorCall
    /\ NoRouteCall

Next == FindStep \/ Part2Enter \/ Part2Skip \/ FormatStep \/ Score

Spec == Init /\ [][Next]_vars

(***************************************************************************)
(* What a match is, stated on the document and not on the search loop      *)
(***************************************************************************)
\* c and d are the same character up to letter case
SameLetter(c, d) == UpperChar(c) = UpperChar(d)

\* text contains phrase under some change of letter case
FoldContains(phrase, text) ==
    \E k \in 0..(Len(text) - Len(phrase)) :
        \A j \in 1..Len(phrase) : SameLetter(text[k + j], phrase[j])

\* the run holds the phrase as it is written, up to letter case
DirectMatch(r, phrase) == FoldContains(phrase, r.text)

\* the run holds the phrase once the spaces of both are removed
SpacelessMatch(r, phrase) ==
    HasSpace(phrase) /\ FoldContains(RemoveSpaces(phrase), RemoveSpaces(r.text))

RunMatches(r, phrase) == DirectMatch(r, phrase) \/ SpacelessMatch(r, phrase)

ParagraphMatches(par, phrase) == \E k \in 1..Len(par.runs) : RunMatches(par.runs[k], phrase)

DocumentMatches(d, phrase) ==
    \E p \in 1..Len(d.paragraphs) : ParagraphMatches(d.paragraphs[p], phrase)

\* the paragraph of the first match: the first paragraph that has a match
FirstMatchParagraph(d, phrase) ==
    CHOOSE p \in 1..Len(d.paragraphs) :
        /\ ParagraphMatches(d.paragraphs[p], phrase)
        /\ \A q \in 1..(p - 1) : ~ParagraphMatches(d.paragraphs[q], phrase)

\* the run of the first match: in its paragraph the first run that holds the
\* phrase directly or, when no run does, the first that holds it spaceless
FirstMatchRun(par, phrase) ==
    IF \E k \in 1..Len(par.runs) : DirectMatch(par.runs[k], phrase)
    THEN CHOOSE k \in 1..Len(par.runs) :
             /\ DirectMatch(par.runs[k], phrase)
             /\ \A m \in 1..(k - 1) : ~DirectMatch(par.runs[m], phrase)
    ELSE CHOOSE k \in 1..Len(par.runs) :
             /\ SpacelessMatch(par.runs[k], phrase)
             /\ \A m \in 1..(k - 1) : ~SpacelessMatch(par.runs[m], phrase)

\* the scan is past PART 1
FindPhaseOver == pc \in {"gate", "part2", "score", "done"}

\* number of entries of a result list whose field f is TRUE
CountTrue(list, f) == Cardinality({n \in 1..Len(list) : list[n][f]})

(***************************************************************************)
(* Claims on the scan (specification Spec)                                 *)
(***************************************************************************)
\* C1: gating law.  When fewer than total_terms phrases were found at the end
\* of the find phase, PART 2 is never entered, check_specific_formatting is
\* never called, format_correct_count is 0 and part2_results is empty.
C1_GatingLaw ==
    (FindPhaseOver /\ results.found_count < results.total_terms)
        => /\ pc # "part2"
           /\ check_calls = 0
           /\ results.format_correct_count = 0
           /\ results.part2_results = << >>

\* a finished scan that found some but not all phrases, one of the found
\* runs carrying the formatting its kind asks for
C1_Witness ==
    /\ pc = "done"
    /\ 0 < results.found_count
    /\ results.found_count < results.total_terms
    /\ \E n \in 1..Len(found_terms) :
          LET first == found_terms[n].instances[1]
          IN  check_specific_formatting(found_terms[n].term, first.run,
                                        first.paragraph).correct

\* C2: overall_score = (findPercentage + formatPercentage) / 2, with
\* findPercentage = 100 * found_count / total_terms and formatPercentage =
\* 100 * format_correct_count / total_terms when all phrases were found, else 0.
C2_OverallScore ==
    pc = "done" =>
        LET judged == IF results.found_count = results.total_terms
                      THEN results.format_correct_count ELSE 0
        IN  /\ results.overall_score[2] > 0
            /\ results.overall_score[1] * 2 * results.total_terms
                 = results.overall_score[2] * 100 * (results.found_count + judged)

\* a finished scan that found every phrase and judged some, not all, correct
C2_Witness ==
    /\ pc = "done"
    /\ results.found_count = results.total_terms
    /\ 0 < results.format_correct_count
    /\ results.format_correct_count < results.total_terms

\* C3: the verdict of a requirement is computed from the run and the
\* paragraph of its first match only, and format_correct_count counts the
\* verdicts so computed.
C3_FirstMatchOnly ==
    (check_calls > 0) =>
        LET n     == Len(results.part2_results)
            entry == results.part2_results[n]
            p     == FirstMatchParagraph(doc, term.searchedWord)
            par   == doc.paragraphs[p]
            k     == FirstMatchRun(par, term.searchedWord)
        IN  /\ run = par.runs[k]
            /\ paragraph = par
            /\ format_result = check_specific_formatting(term, par.runs[k], par)
            /\ entry.correct = format_result.correct
            /\ entry.message = format_result.message
            /\ results.format_correct_count = CountTrue(results.part2_results, "correct")

\* a verdict was given for a phrase that has a later match whose formatting
\* would have given the opposite verdict
C3_Witness ==
    /\ check_calls > 0
    /\ \E n \in 2..Len(found_instances) :
          check_specific_formatting(term, found_instances[n].run,
                                    found_instances[n].paragraph).correct
            # format_result.correct

\* C4: a phrase that matches no run is recorded with found = FALSE and
\* instances_count = 0 and adds nothing to found_count; found_count is the
\* number of part1_results entries with found = TRUE.
C4_NotFound ==
    /\ results.found_count = CountTrue(results.part1_results, "found")
    /\ Len(results.part1_results) > 0 =>
          LET n     == Len(results.part1_results)
              entry == results.part1_results[n]
          IN  /\ entry.word = FORMATTING_TERMS[n].searchedWord
              /\ ~DocumentMatches(doc, entry.word)
                    => (~entry.found /\ entry.instances_count = 0)
              /\ (pc \in {"part1", "gate"} /\ ~entry.found) => found_instances = << >>

\* a finished scan with a phrase that was found and a phrase that was not
C4_Witness ==
    /\ pc = "done"
    /\ \E n \in 1..Len(results.part1_results) : ~results.part1_results[n].found
    /\ \E n \in 1..Len(results.part1_results) : results.part1_results[n].found

\* C7: a document with zero paragraphs yields found = FALSE for every
\* requirement, found_count = 0, an empty part2_results and overall_score = 0.
C7_EmptyDocument ==
    (pc = "done" /\ Len(doc.paragraphs) = 0)
        => /\ Len(results.part1_results) = results.total_terms
           /\ \A n \in 1..Len(results.part1_results) : ~results.part1_results[n].found
           /\ results.found_count = 0
           /\ results.part2_results = << >>
           /\ results.overall_score[1] = 0

\* the scan of the empty document has finished
C7_Witness == pc = "done" /\ Len(doc.paragraphs) = 0 /\ results.total_terms > 0

\* the attribute that the check of a kind of FORMATTING_TERMS reads
AttributeRead(format_check) ==
    CASE format_check = "bold"                    -> "bold"
      [] format_check = "italic"                  -> "italic"
      [] format_check \in {"underline", "underlineDouble"} -> "underline"
      [] format_check = "superscript"             -> "superscript"
      [] format_check = "subscript"               -> "subscript"
      [] format_check = "strikethrough"           -> "strike"
      [] format_check = "smallCaps"               -> "small_caps"
      [] format_check \in {"fontSize10", "fontSize12", "fontSize15", "fontSize26"}
                                                  -> "size"
      [] format_check \in {"fontArial", "fontBookman", "fontComicSans", "fontImpact",
                           "fontTahoma", "fontVerdana"} -> "name"
      [] format_check \in {"colorGreen", "colorDarkBlue"} -> "rgb"
      [] format_check = "highlightTurquoise"      -> "highlight_color"
      [] format_check \in {"alignLeft", "alignCenter", "alignRight"} -> "alignment"
      [] OTHER                                    -> "none"

\* reading the attribute that the kind needs raises for this run and paragraph
ReadFaults(format_check, r, par) ==
    LET attr == AttributeRead(format_check)
    IN  IF attr = "alignment" THEN Raises(par, attr) ELSE Raises(r, attr)

\* C9: fault containment.  When reading the attribute of a requirement's
\* first match raises, the requirement gets correct = FALSE with a diagnostic
\* message, the scan goes on, and a finished PART 2 holds exactly one verdict
\* per requirement, in the order of the requirement list.
C9_FaultContainment ==
    /\ (check_calls > 0 /\ ReadFaults(term.formatCheck, run, paragraph))
          => LET entry == results.part2_results[Len(results.part2_results)]
             IN  /\ ~entry.correct
                 /\ StartsWith(entry.message, "Error checking " \o term.formatCheck)
                 /\ pc \in {"part2", "score", "done"}
    /\ (pc \in {"score", "done"} /\ results.found_count = results.total_terms)
          => /\ Len(results.part2_results) = Len(FORMATTING_TERMS)
             /\ \A n \in 1..Len(FORMATTING_TERMS) :
                   /\ results.part2_results[n].word = FORMATTING_TERMS[n].searchedWord
                   /\ results.part2_results[n].format_check = FORMATTING_TERMS[n].formatCheck

\* a finished scan in which the verdict of one requirement reports a fault
\* and a later requirement was judged correct
C9_Witness ==
    /\ pc = "done"
    /\ \E n \in 1..Len(results.part2_results) :
          /\ StartsWith(results.part2_results[n].message, "Error checking ")
          /\ \E m \in (n + 1)..Len(results.part2_results) : results.part2_results[m].correct

(***************************************************************************)
(* Specification of one call of find_text_in_document: the phrase is any   *)
(* short text over a letter in each case and the space; the runs of the    *)
(* document hold the phrase, a variant of it or a piece of it.  MaxRuns    *)
(* bounds the number of runs of the whole document.                        *)
(***************************************************************************)
FindAlphabet == {"a", "B", " "}

MaxPhraseLen == 3

MaxRuns == 2

MaxParagraphs == 2

\* the sequences over S of length lo..hi
SeqsOf(S, lo, hi) == UNION {[1..m -> S] : m \in lo..hi}

\* the phrases: short texts that do not start with a space
Phrases == {ph \in SeqsOf(FindAlphabet, 1, MaxPhraseLen) : ph[1] # " "}

\* every letter of s in the other case
SwapCase(s) == [k \in 1..Len(s) |-> IF s[k] \in UpperSet THEN LowerChar(s[k])
                                                         ELSE UpperChar(s[k])]

RECURSIVE DoubleSpaces(_)
\* s with every space written twice
DoubleSpaces(s) ==
    IF Len(s) = 0 THEN << >>
    ELSE (IF s[1] = " " THEN <<" ", " ">> ELSE <<s[1]>>) \o DoubleSpaces(Tail(s))

\* run texts for a phrase: the phrase, the phrase in the other case inside a
\* longer text, the phrase without its spaces, the phrase with its spaces
\* doubled, and its two halves
RunTextsFor(phrase) ==
    LET h == (Len(phrase) + 1) \div 2
    IN  {phrase,
         <<"x">> \o SwapCase(phrase),
         RemoveSpaces(phrase),
         DoubleSpaces(phrase),
         SubSeq(phrase, 1, h),
         SubSeq(phrase, h + 1, Len(phrase))}

RECURSIVE Sum(_)
Sum(sizes) == IF Len(sizes) = 0 THEN 0 ELSE Head(sizes) + Sum(Tail(sizes))

\* the ways to cut n runs into at most MaxParagraphs paragraphs (a paragraph
\* may have no run): the number of runs of each paragraph
Cuts(n) == {sizes \in SeqsOf(0..n, 0, MaxParagraphs) : Sum(sizes) = n}

\* the document whose runs have the texts `texts`, cut into paragraphs of
\* sizes[1], sizes[2], ... runs
CutDocument(texts, sizes) ==
    [paragraphs |->
        [p \in 1..Len(sizes) |->
            [runs      |-> [k \in 1..sizes[p] |->
                               PlainRun(texts[Sum(SubSeq(sizes, 1, p - 1)) + k])],
             alignment |-> "None",
             raises    |-> {}]]]

\* the documents of at most MaxRuns runs in at most MaxParagraphs paragraphs
DocumentsFor(phrase) ==
    UNION {{CutDocument(texts, sizes) : sizes \in Cuts(Len(texts))} :
              texts \in SeqsOf(RunTextsFor(phrase), 0, MaxRuns)}

FindInit ==
    /\ search_text \in Phrases
    /\ doc \in DocumentsFor(search_text)
    /\ pc = "locate"
    /\ i = 0
    /\ results = InitialResults
    /\ found_terms = << >>
    /\ found_instances = << >>
    /\ term = NoTerm
    /\ run = NoRun
    /\ paragraph = NoParagraph
    /\ format_result = NoVerdict
    /\ check_calls = 0
    /\ NoScanBefore
    /\ NoColorCall
    /\ NoRouteCall

\* found_instances = find_text_in_document(doc, search_text)
Locate ==
    /\ pc = "locate"
    /\ found_instances' = find_text_in_document(doc, search_text)
    /\ pc' = "located"
    /\ UNCHANGED <<doc, i, results, found_terms, search_text, term, run, paragraph,
                   format_result, check_calls>>
    /\ UNCHANGED <<scan_vars, color_vars, route_vars>>

FindNext == Locate

SpecFind == FindInit /\ [][FindNext]_vars

\* run k of paragraph p of the document is among the returned matches
Returned(p, k) ==
    \E n \in 1..Len(found_instances) :
        /\ found_instances[n].paragraph_idx = p - 1
        /\ found_instances[n].run_idx = k - 1
        /\ found_instances[n].run = doc.paragraphs[p].runs[k]
        /\ found_instances[n].paragraph = doc.paragraphs[p]
        /\ found_instances[n].text = doc.paragraphs[p].runs[k].text

RunPositions ==
    UNION {{<<p, k>> : k \in 1..Len(doc.paragraphs[p].runs)} : p \in 1..Len(doc.paragraphs)}

RunAt(pk) == doc.paragraphs[pk[1]].runs[pk[2]]

\* C5: matching is case-insensitive.  Every run whose text contains the
\* phrase under some change of letter case is returned as a match.
C5_CaseInsensitive ==
    pc = "located" =>
        \A pk \in RunPositions :
            FoldContains(search_text, RunAt(pk).text) => Returned(pk[1], pk[2])

\* a returned run that holds the phrase in another case only
C5_Witness ==
    /\ pc = "located"
    /\ \E pk \in RunPositions :
          /\ FoldContains(search_text, RunAt(pk).text)
          /\ ~Contains(search_text, RunAt(pk).text)
          /\ Returned(pk[1], pk[2])

\* the phrase has a space that is neither its first nor its last character
InternalSpace(phrase) == \E k \in 2..(Len(phrase) - 1) : phrase[k] = " "

\* C6: whitespace-insensitive fallback.  For a phrase with an internal space,
\* every run whose text without spaces contains the phrase without spaces is
\* returned as a match, also when the direct test on the paragraph fails.
C6_NoSpaceFallback ==
    pc = "located" =>
        \A pk \in RunPositions :
            (/\ InternalSpace(search_text)
             /\ FoldContains(RemoveSpaces(search_text), RemoveSpaces(RunAt(pk).text)))
                => Returned(pk[1], pk[2])

\* a returned run of a paragraph whose text does not hold the phrase as
\* written, in any case
C6_Witness ==
    /\ pc = "located"
    /\ InternalSpace(search_text)
    /\ \E pk \in RunPositions :
          /\ ~FoldContains(search_text, ParagraphText(doc.paragraphs[pk[1]]))
          /\ FoldContains(RemoveSpaces(search_text), RemoveSpaces(RunAt(pk).text))
          /\ Returned(pk[1], pk[2])

(***************************************************************************)
(* Specification of one call of check_specific_formatting: the kind is any *)
(* kind of FORMATTING_TERMS or one of a few other strings; the run is a    *)
(* plain, a wrongly or a correctly formatted run with one attribute set to *)
(* any of its values or made to raise.                                     *)
(***************************************************************************)
TermKinds == {FORMATTING_TERMS[n].formatCheck : n \in 1..Len(FORMATTING_TERMS)}

OtherKinds == {"fontTimes", "font", "fontSizeLarge", "fontSize", "alignJustify", "align",
               "colorRed", "highlightYellow", "Bold", "doubleStrike", ""}

EvalKinds == TermKinds \cup OtherKinds

AttributeValues ==
    [bold            |-> {"None", "True", "False"},
     italic          |-> {"None", "True", "False"},
     underline       |-> {"None", "True", "False", "DOUBLE", "DOTTED", "WAVY"},
     superscript     |-> {"None", "True", "False"},
     subscript       |-> {"None", "True", "False"},
     strike          |-> {"None", "True", "False"},
     small_caps      |-> {"None", "True", "False"},
     size            |-> {<< >>, <<0>>, <<10 * EmuPerPt>>, <<12 * EmuPerPt>>,
                          <<124 * (EmuPerPt \div 10)>>, <<125 * (EmuPerPt \div 10)>>,
                          <<15 * EmuPerPt>>,
                          <<26 * EmuPerPt>>},
     name            |-> {<< >>, <<"">>, <<"Arial">>, <<"ARIAL NARROW">>,
                          <<"Comic Sans MS">>, <<"Courier New">>},
     rgb             |-> {<< >>, <<"auto">>, <<50, 180, 60>>, <<0, 0, 0>>, <<0, 32, 96>>,
                          <<255, 0, 0>>},
     highlight_color |-> {"None", "TURQUOISE", "YELLOW"}]

EvalText == Chars("x")

EvalBaseRuns == {PlainRun(EvalText), WrongRun(EvalText)}

EvalRuns ==
    {RightRun(EvalText, fc) : fc \in TermKinds}
    \cup {FaultRun(EvalText)}
    \cup {[base EXCEPT !.raises = {attr}] : base \in EvalBaseRuns, attr \in RunAttributes}
    \cup UNION {{[base EXCEPT ![attr] = v] : v \in AttributeValues[attr]} :
                    base \in EvalBaseRuns, attr \in RunAttributes}

EvalParagraphs ==
    {[runs |-> << >>, alignment |-> a, raises |-> {}] :
        a \in {"None", "LEFT", "CENTER", "RIGHT", "JUSTIFY"}}
    \cup {[runs |-> << >>, alignment |-> "None", raises |-> {"alignment"}]}

EvalInit ==
    /\ term \in {[searchedWord |-> EvalText, formatCheck |-> fc] : fc \in EvalKinds}
    /\ run \in EvalRuns
    /\ paragraph \in EvalParagraphs
    /\ pc = "evaluate"
    /\ doc = EmptyDocument
    /\ i = 0
    /\ results = InitialResults
    /\ found_terms = << >>
    /\ found_instances = << >>
    /\ search_text = << >>
    /\ format_result = NoVerdict
    /\ check_calls = 0
    /\ NoScanBefore
    /\ NoColorCall
    /\ NoRouteCall

\* format_result = check_specific_formatting(term, run, paragraph)
Evaluate ==
    /\ pc = "evaluate"
    /\ format_result' = check_specific_formatting(term, run, paragraph)
    /\ check_calls' = check_calls + 1
    /\ pc' = "evaluated"
    /\ UNCHANGED <<doc, i, results, found_terms, found_instances, search_text, term,
                   run, paragraph>>
    /\ UNCHANGED <<scan_vars, color_vars, route_vars>>

EvalNext == Evaluate

SpecEval == EvalInit /\ [][EvalNext]_vars

\* the message holds the text sub
MessageHas(message, sub) == Contains(Chars(sub), Chars(message))

\* the kinds for which check_specific_formatting has a rule: the kinds it
\* compares with by name, fontSize followed by a number, the keys of
\* font_name_map and of alignment_map, and the spacing kinds
RecognizedKind(format_check) ==
    \/ format_check \in {"bold", "italic", "underline", "underlineDouble", "superscript",
                         "subscript", "strikethrough", "smallCaps", "colorGreen",
                         "colorDarkBlue", "highlightTurquoise"}
    \/ format_check \in {"fontArial", "fontBookman", "fontComicSans", "fontImpact",
                         "fontTahoma", "fontVerdana"}
    \/ format_check \in {"alignLeft", "alignCenter", "alignRight"}
    \/ (StartsWith(format_check, "fontSize")
          /\ IsIntLiteral(SubSeq(format_check, 9, Len(format_check))))
    \/ StartsWith(format_check, "spacing")

\* C8: for every kind that is not a recognized kind, also one that begins
\* with "font" or "align", check_specific_formatting returns correct = FALSE
\* with a message that names the kind.
C8_UnknownKind ==
    (pc = "evaluated" /\ ~RecognizedKind(term.formatCheck))
        => /\ ~format_result.correct
           /\ MessageHas(format_result.message, term.formatCheck)

SpacingKinds == {"spacingExpanded5", "spacingExpanded10", "spacingCondensed2"}

\* C10: for the character-spacing kinds and for underlineRed the verdict is
\* correct = FALSE with a message saying that the check is not available or
\* not implemented, the same for every run and paragraph.
C10_UnavailableChecks ==
    pc = "evaluated" =>
        /\ term.formatCheck \in SpacingKinds
              => /\ ~format_result.correct
                 /\ format_result.message
                      = "Character spacing check not available in python-docx"
        /\ term.formatCheck = "underlineRed"
              => /\ ~format_result.correct
                 /\ format_result.message = "Format check for underlineRed not implemented"

\* underlineRed was judged on a run that is underlined
C10_Witness ==
    /\ pc = "evaluated"
    /\ term.formatCheck = "underlineRed"
    /\ run.underline = "True"
    /\ ~("underline" \in run.raises)
    /\ ~format_result.correct


(***************************************************************************)
(* Claims on the rules of check_specific_formatting (specification         *)
(* SpecEval)                                                               *)
(***************************************************************************)
\* the attribute of the run was read without a fault
Reads(attr) == ~(attr \in run.raises)

\* C11: for kind underlineDotted the verdict is correct = TRUE if and only if
\* the underline style of the run is exactly the dotted style.
C11_DottedExact ==
    (pc = "evaluated" /\ term.formatCheck = "underlineDotted" /\ Reads("underline"))
        => (format_result.correct <=> run.underline = "DOTTED")

\* C12: for kind underline the verdict is correct = TRUE if and only if the
\* underline of the run is set and is not the none style (which the run
\* reports as False); for kind underlineDouble if and only if the style is
\* the double style, so not for a single (True) or an unset underline.
C12_UnderlineRules ==
    (pc = "evaluated" /\ Reads("underline")) =>
        /\ term.formatCheck = "underline"
              => (format_result.correct <=> run.underline \notin {"None", "False"})
        /\ term.formatCheck = "underlineDouble"
              => /\ format_result.correct <=> run.underline = "DOUBLE"
                 /\ run.underline \in {"True", "None"} => ~format_result.correct

\* a single underline was judged against the double underline kind
C12_Witness ==
    /\ pc = "evaluated"
    /\ term.formatCheck = "underlineDouble"
    /\ Reads("underline")
    /\ run.underline = "True"
    /\ ~format_result.correct

\* the run attribute that a boolean-style kind reads
BooleanKinds == {"bold", "italic", "superscript", "subscript", "strikethrough", "smallCaps"}

BooleanAttribute(format_check) ==
    CASE format_check = "bold"          -> "bold"
      [] format_check = "italic"        -> "italic"
      [] format_check = "superscript"   -> "superscript"
      [] format_check = "subscript"     -> "subscript"
      [] format_check = "strikethrough" -> "strike"
      [] format_check = "smallCaps"     -> "small_caps"

\* C13: for each boolean-style kind the verdict is correct = TRUE if and only
\* if the attribute of the run is true; an unset attribute gives correct =
\* FALSE with a "missing" message that reports no error.
C13_BooleanKinds ==
    (pc = "evaluated" /\ term.formatCheck \in BooleanKinds
                      /\ Reads(BooleanAttribute(term.formatCheck)))
        => LET value == run[BooleanAttribute(term.formatCheck)]
           IN  /\ format_result.correct <=> value = "True"
               /\ value = "None"
                     => /\ ~format_result.correct
                        /\ MessageHas(format_result.message, "missing")
                        /\ ~MessageHas(format_result.message, "Error")

\* a boolean-style kind was judged on a run whose attribute is unset
C13_Witness ==
    /\ pc = "evaluated"
    /\ term.formatCheck = "smallCaps"
    /\ Reads("small_caps")
    /\ run.small_caps = "None"
    /\ format_result.message = "Small caps formatting missing"

\* the kind is fontSize followed by a decimal number
FontSizeKind(format_check) ==
    /\ StartsWith(format_check, "fontSize")
    /\ IsIntLiteral(SubSeq(format_check, 9, Len(format_check)))

\* the size of the run in tenths of a point (<< >> for no size)
TenthsOfPoint(r) == IF r.size = << >> THEN << >> ELSE <<(r.size[1] * 10) \div EmuPerPt>>

\* C14: for kind fontSizeN the verdict is correct = TRUE if and only if the
\* size of the run is N points exactly: 12.0pt against 12 is correct, 12.4pt
\* against 12 is not, an unset size is not.
C14_FontSizeExact ==
    (pc = "evaluated" /\ FontSizeKind(term.formatCheck) /\ Reads("size"))
        => LET N == IntOf(SubSeq(term.formatCheck, 9, Len(term.formatCheck)))
           IN  /\ format_result.correct <=> TenthsOfPoint(run) = <<10 * N>>
               /\ (N = 12 /\ TenthsOfPoint(run) = <<120>>) => format_result.correct
               /\ (N = 12 /\ TenthsOfPoint(run) = <<124>>) => ~format_result.correct
               /\ run.size = << >> => ~format_result.correct

\* a size of 12.4pt was judged against fontSize12
C14_Witness ==
    /\ pc = "evaluated"
    /\ term.formatCheck = "fontSize12"
    /\ Reads("size")
    /\ TenthsOfPoint(run) = <<124>>
    /\ ~format_result.correct

FontFamilyKinds == {"fontArial", "fontBookman", "fontComicSans", "fontImpact",
                    "fontTahoma", "fontVerdana"}

\* the keyword of a font-family kind
FontKeyword(format_check) ==
    CASE format_check = "fontArial"     -> "arial"
      [] format_check = "fontBookman"   -> "bookman"
      [] format_check = "fontComicSans" -> "comic"
      [] format_check = "fontImpact"    -> "impact"
      [] format_check = "fontTahoma"    -> "tahoma"
      [] format_check = "fontVerdana"   -> "verdana"

\* C15: for each font-family kind of the requirement list the verdict is
\* correct = TRUE if and only if the keyword of the kind occurs in the font
\* name of the run under some change of letter case; a run with no font name
\* gives correct = FALSE.
C15_FontFamily ==
    (pc = "evaluated" /\ term.formatCheck \in FontFamilyKinds /\ Reads("name"))
        => /\ format_result.correct
                <=> /\ run.name # << >>
                    /\ FoldContains(Chars(FontKeyword(term.formatCheck)), Chars(run.name[1]))
           /\ run.name = << >> => ~format_result.correct

\* the font name "Comic Sans MS" was judged against fontComicSans
C15_Witness ==
    /\ pc = "evaluated"
    /\ term.formatCheck = "fontComicSans"
    /\ Reads("name")
    /\ run.name = <<"Comic Sans MS">>
    /\ format_result.correct

AlignKinds == {"alignLeft", "alignCenter", "alignRight"}

\* the alignment that an alignment kind names
NamedAlignment(format_check) ==
    CASE format_check = "alignLeft"   -> "LEFT"
      [] format_check = "alignCenter" -> "CENTER"
      [] format_check = "alignRight"  -> "RIGHT"

\* C16: for kinds alignLeft, alignCenter and alignRight the verdict is
\* correct = TRUE if and only if the alignment of the paragraph is the named
\* one; a paragraph with unset alignment gives correct = FALSE for all three.
C16_Alignment ==
    (pc = "evaluated" /\ term.formatCheck \in AlignKinds
                      /\ ~("alignment" \in paragraph.raises))
        => /\ format_result.correct <=> paragraph.alignment = NamedAlignment(term.formatCheck)
           /\ paragraph.alignment = "None" => ~format_result.correct

\* a right-aligned paragraph was judged against alignLeft
C16_Witness ==
    /\ pc = "evaluated"
    /\ term.formatCheck = "alignLeft"
    /\ paragraph.alignment = "RIGHT"
    /\ ~("alignment" \in paragraph.raises)
    /\ ~format_result.correct

(***************************************************************************)
(* Specification of one call of is_color_in_range: the colour is absent,   *)
(* has no r, g, b, or is a triple over the channel values around the       *)
(* bounds of the regions; the name is a name of a region in some letter    *)
(* case or another string.                                                 *)
(***************************************************************************)
ChannelValues == {0, 50, 60, 79, 80, 99, 100, 101, 149, 150, 151, 180, 255}

ColorInputs ==
    {<< >>, <<"auto">>} \cup (ChannelValues \X ChannelValues \X ChannelValues)

RegionNames == {"green", "darkblue", "red", "blue", "turquoise"}

ColorNames == RegionNames \cup {"Green", "GREEN", "DarkBlue", "greenish", "dark blue",
                                "purple", "yellow", ""}

ColorInit ==
    /\ rgb_input \in ColorInputs
    /\ name_input \in ColorNames
    /\ in_range = FALSE
    /\ pc = "classify"
    /\ doc = EmptyDocument
    /\ i = 0
    /\ results = InitialResults
    /\ found_terms = << >>
    /\ found_instances = << >>
    /\ search_text = << >>
    /\ term = NoTerm
    /\ run = NoRun
    /\ paragraph = NoParagraph
    /\ format_result = NoVerdict
    /\ check_calls = 0
    /\ NoScanBefore
    /\ NoRouteCall

\* in_range = is_color_in_range(rgb_input, name_input)
Classify ==
    /\ pc = "classify"
    /\ in_range' = is_color_in_range(rgb_input, name_input)
    /\ pc' = "classified"
    /\ UNCHANGED <<doc, i, results, found_terms, found_instances, search_text, term,
                   run, paragraph, format_result, check_calls, rgb_input, name_input>>
    /\ UNCHANGED <<scan_vars, route_vars>>

ColorNext == Classify

SpecColor == ColorInit /\ [][ColorNext]_vars

\* the name is the word, up to letter case
NameIs(name, word) ==
    /\ Len(name) = Len(word)
    /\ \A k \in 1..Len(name) : SameLetter(CharAt(name, k), CharAt(word, k))

\* the colour is a triple r, g, b
IsTriple(rgb) == Len(rgb) = 3

\* C17: for every triple (r, g, b) the result for "green" is TRUE if and only
\* if g > 100, r < 150 and b < 150, so TRUE for (50, 180, 60) and FALSE for
\* (0, 0, 0); the result is FALSE for an absent colour and for every name
\* that is not, up to letter case, green, darkblue, red, blue or turquoise.
C17_GreenRange ==
    pc = "classified" =>
        /\ (IsTriple(rgb_input) /\ NameIs(name_input, "green"))
              => /\ in_range <=> /\ rgb_input[2] > 100
                                 /\ rgb_input[1] < 150
                                 /\ rgb_input[3] < 150
                 /\ rgb_input = <<50, 180, 60>> => in_range
                 /\ rgb_input = <<0, 0, 0>> => ~in_range
        /\ rgb_input = << >> => ~in_range
        /\ (\A word \in RegionNames : ~NameIs(name_input, word)) => ~in_range

\* a colour on the bound of the green region was classified as not green
C17_Witness ==
    /\ pc = "classified"
    /\ name_input = "green"
    /\ rgb_input = <<149, 100, 149>>
    /\ ~in_range

(***************************************************************************)
(* Specification of two scans of one document: a second call of            *)
(* check_comprehensive_formatting once the first has returned.             *)
(***************************************************************************)
\* line 311 with found_terms kept from the call before
found_terms_kept(old) == old

\* line 311: found_terms = [] at the entry of a call
found_terms_at_entry(old) == << >>

\* the first call has returned; the second call is entered, lines 298-311
Rescan ==
    /\ pc = "done"
    /\ previous = NoReport
    /\ previous' = results
    /\ results' = InitialResults
    /\ found_terms' = found_terms_at_entry(found_terms)
    /\ i' = 1
    /\ pc' = "part1"
    /\ found_instances' = << >>
    /\ search_text' = << >>
    /\ term' = NoTerm
    /\ run' = NoRun
    /\ paragraph' = NoParagraph
    /\ format_result' = NoVerdict
    /\ check_calls' = 0
    /\ UNCHANGED <<doc, color_vars, route_vars>>

TwiceNext == FindStep \/ Part2Enter \/ Part2Skip \/ FormatStep \/ Score \/ Rescan

SpecTwice == Init /\ [][TwiceNext]_vars

\* the second scan has returned
ScannedTwice == pc = "done" /\ previous # NoReport

EndsWith(s, suffix) ==
    /\ Len(s) >= Len(suffix)
    /\ SubSeq(s, Len(s) - Len(suffix) + 1, Len(s)) = suffix

RouteFilenames == {"", "notes.txt", "report.docx"}

RouteDocuments ==
    {EmptyDocument, UniformDocument("right"), UniformDocument("fault"), PrefixDocument(10)}

\* datetime.now().isoformat()
Clock == {"t1", "t2"}

Requests ==
    [has_file : BOOLEAN,
     filename : RouteFilenames,
     content  : {"empty", "corrupt", "docx"},
     document : RouteDocuments,
     fault_at : {0, 1, Len(FORMATTING_TERMS)}]

\* the bodies with status 400, lines 928-948
Rejection(message) == [status |-> 400, error |-> message]

\* error_response with found_count set as total_terms is
error_response_counted(e, filename, now) ==
    [status               |-> 500,
     error                |-> "Failed to analyze document",
     message              |-> e,
     overall_score        |-> <<0, 1>>,
     total_terms          |-> Len(FORMATTING_TERMS),
     found_count          |-> Len(FORMATTING_TERMS),
     format_correct_count |-> 0,
     timestamp            |-> now,
     filename             |-> filename]

\* lines 989-1001: the body and the status of the except clause
error_response(e, filename, now) ==
    [status               |-> 500,
     error                |-> "Failed to analyze document",
     message              |-> e,
     overall_score        |-> <<0, 1>>,
     total_terms          |-> Len(FORMATTING_TERMS),
     found_count          |-> 0,
     format_correct_count |-> 0,
     timestamp            |-> now,
     filename             |-> filename]

RouteInit ==
    /\ request \in Requests
    /\ response = NoResponse
    /\ pc = "request"
    /\ doc = EmptyDocument
    /\ i = 0
    /\ results = InitialResults
    /\ found_terms = << >>
    /\ found_instances = << >>
    /\ search_text = << >>
    /\ term = NoTerm
    /\ run = NoRun
    /\ paragraph = NoParagraph
    /\ format_result = NoVerdict
    /\ check_calls = 0
    /\ NoScanBefore
    /\ NoColorCall

\* lines 926-950: the checks on the upload
RouteValidate ==
    /\ pc = "request"
    /\ IF ~request.has_file
       THEN response' = Rejection("No file uploaded") /\ pc' = "responded"
       ELSE IF request.filename = ""
       THEN response' = Rejection("No file selected") /\ pc' = "responded"
       ELSE IF ~EndsWith(request.filename, ".docx")
       THEN response' = Rejection("Please upload a .docx file") /\ pc' = "responded"
       ELSE IF request.content = "empty"
       THEN response' = Rejection("Uploaded file is empty") /\ pc' = "responded"
       ELSE response' = response /\ pc' = "open"
    /\ UNCHANGED <<doc, i, results, found_terms, found_instances, search_text, term,
                   run, paragraph, format_result, check_calls, request>>
    /\ UNCHANGED <<scan_vars, color_vars>>

\* lines 953-958: Document(file_stream) raises, or the scan is entered
RouteOpen ==
    /\ pc = "open"
    /\ IF request.content = "corrupt"
       THEN /\ \E now \in Clock :
                 response' = error_response("File is not a zip file",
                                            request.filename, now)
            /\ pc' = "responded"
            /\ UNCHANGED <<doc, i, results, found_terms>>
       ELSE /\ doc' = request.document
            /\ results' = InitialResults
            /\ found_terms' = found_terms_at_entry(found_terms)
            /\ i' = 1
            /\ pc' = "part1"
            /\ UNCHANGED response
    /\ UNCHANGED <<found_instances, search_text, term, run, paragraph, format_result,
                   check_calls, request>>
    /\ UNCHANGED <<scan_vars, color_vars>>

\* an iteration of PART 1 in which reading the document does not raise
RouteFindStep ==
    /\ i # request.fault_at
    /\ FindStep

\* reading the document raises inside find_text_in_document: the exception
\* leaves check_comprehensive_formatting and reaches line 984
RouteScanFault ==
    /\ pc = "part1"
    /\ i = request.fault_at
    /\ \E now \in Clock :
          response' = error_response("cannot read the document", request.filename, now)
    /\ pc' = "responded"
    /\ UNCHANGED <<doc, i, results, found_terms, found_instances, search_text, term,
                   run, paragraph, format_result, check_calls, request>>
    /\ UNCHANGED <<scan_vars, color_vars>>

\* lines 959-982: the response of a scan that returned
RouteRespond ==
    /\ pc = "done"
    /\ \E now \in Clock :
          response' = [status               |-> 200,
                       total_terms          |-> results.total_terms,
                       found_count          |-> results.found_count,
                       format_correct_count |-> results.format_correct_count,
                       overall_score        |-> results.overall_score,
                       part1_results        |-> results.part1_results,
                       part2_results        |-> results.part2_results,
                       debug_info           |-> results.debug_info,
                       timestamp            |-> now,
                       filename             |-> request.filename]
    /\ pc' = "responded"
    /\ UNCHANGED <<doc, i, results, found_terms, found_instances, search_text, term,
                   run, paragraph, format_result, check_calls, request>>
    /\ UNCHANGED <<scan_vars, color_vars>>

RouteNext ==
    \/ RouteValidate
    \/ RouteOpen
    \/ RouteFindStep
    \/ RouteScanFault
    \/ Part2Enter
    \/ Part2Skip
    \/ FormatStep
    \/ Score
    \/ RouteRespond

SpecRoute == RouteInit /\ [][RouteNext]_vars

\* the upload passes the checks of the route and is opened
Accepted(req) ==
    req.has_file /\ EndsWith(req.filename, ".docx") /\ req.content # "empty"

\* the overall scan of the upload fails: the document cannot be opened or
\* the scan raises
ScanFails(req) ==
    Accepted(req) /\ (req.content = "corrupt" \/ req.fault_at > 0)

\* C19 as stated: when the overall scan fails the route responds with an
\* error message and a report in which total_terms, found_count and
\* format_correct_count are all 0 and overall_score is 0.
C19_AllZeroReport ==
    (pc = "responded" /\ ScanFails(request))
        => /\ response.error = "Failed to analyze document"
           /\ response.total_terms = 0
           /\ response.found_count = 0
           /\ response.format_correct_count = 0
           /\ response.overall_score[1] = 0

\* C19 amended: when opening the document or the scan raises, the route
\* responds with status 500, an error message and a report in which
\* found_count and format_correct_count are 0 and overall_score is 0, and
\* total_terms is the number of requirements.
C19_FailedScanReport ==
    (pc = "responded" /\ ScanFails(request))
        => /\ response.status = 500
           /\ response.error = "Failed to analyze document"
           /\ response.message # ""
           /\ response.total_terms = Len(FORMATTING_TERMS)
           /\ response.found_count = 0
           /\ response.format_correct_count = 0
           /\ response.overall_score[1] = 0

\* the scan raised during its last search, after it had found phrases
C19_Witness ==
    /\ pc = "responded"
    /\ ScanFails(request)
    /\ request.content = "docx"
    /\ results.found_count > 0
    /\ response.status = 500

(***************************************************************************)
(* Claims on phrases that lie across runs (specification SpecFind)         *)
(***************************************************************************)
\* the text holds the phrase, as written or with the spaces of both removed,
\* under some change of letter case
Holds(text, phrase) ==
    \/ FoldContains(phrase, text)
    \/ FoldContains(RemoveSpaces(phrase), RemoveSpaces(text))

\* no single run of the paragraph holds the phrase
NoRunHolds(par, phrase) == \A k \in 1..Len(par.runs) : ~Holds(par.runs[k].text, phrase)

\* the phrase occurs in the text of the paragraph across a run boundary only
AcrossRunsOnly(par, phrase) == Holds(ParagraphText(par), phrase) /\ NoRunHolds(par, phrase)

\* a match of paragraph p was returned
ReturnedFrom(p) == \E n \in 1..Len(found_instances) : found_instances[n].paragraph_idx = p - 1

\* C20: when the phrase occurs in the text of a paragraph across a run
\* boundary only, no match is returned for that paragraph; when no run of
\* the document holds the phrase, no match is returned and the phrase
\* counts as not found.
C20_AcrossRuns ==
    pc = "located" =>
        /\ \A p \in 1..Len(doc.paragraphs) :
              AcrossRunsOnly(doc.paragraphs[p], search_text) => ~ReturnedFrom(p)
        /\ (\A p \in 1..Len(doc.paragraphs) : NoRunHolds(doc.paragraphs[p], search_text))
              => (found_instances = << >> /\ ~is_found(found_instances))

\* the search has returned no match for a document with a paragraph that
\* holds the phrase as written, split over its two runs
C20_Witness ==
    /\ pc = "located"
    /\ found_instances = << >>
    /\ \E p \in 1..Len(doc.paragraphs) :
          /\ Len(doc.paragraphs[p].runs) = 2
          /\ FoldContains(search_text, ParagraphText(doc.paragraphs[p]))
          /\ NoRunHolds(doc.paragraphs[p], search_text)

(***************************************************************************)
(* Claims on the number and the order of the matches (specification        *)
(* SpecFind)                                                               *)
(***************************************************************************)
\* the numbers 1..n that satisfy Test, in increasing order
Ordered(n, Test(_)) == SelectSeq([k \in 1..n |-> k], Test)

\* the runs of a paragraph in the order the claim gives: the runs that hold
\* the phrase as written, then the runs that hold it with the spaces removed
PrimaryThenFallback(par, phrase) ==
    Ordered(Len(par.runs), LAMBDA k : DirectMatch(par.runs[k], phrase))
    \o Ordered(Len(par.runs), LAMBDA k : SpacelessMatch(par.runs[k], phrase))

\* the run numbers of the matches returned for paragraph p, in their order
ReturnedRuns(p) ==
    LET hits == Ordered(Len(found_instances),
                        LAMBDA n : found_instances[n].paragraph_idx = p - 1)
    IN  [n \in 1..Len(hits) |-> found_instances[hits[n]].run_idx + 1]

\* the number of returned matches that are run k of paragraph p
TimesReturned(p, k) ==
    Cardinality({n \in 1..Len(found_instances) :
                    /\ found_instances[n].paragraph_idx = p - 1
                    /\ found_instances[n].run_idx = k - 1})

\* C21: for a phrase with an internal space every run that holds the phrase
\* as written is returned twice, once by the primary and once by the
\* fallback test; the matches of one paragraph are its primary matches
\* followed by its fallback matches, and the matches of an earlier paragraph
\* come before those of a later one.
C21_DuplicatesAndOrder ==
    (pc = "located" /\ InternalSpace(search_text)) =>
        /\ \A pk \in RunPositions :
              DirectMatch(RunAt(pk), search_text) => TimesReturned(pk[1], pk[2]) = 2
        /\ \A p \in 1..Len(doc.paragraphs) :
              ReturnedRuns(p) = PrimaryThenFallback(doc.paragraphs[p], search_text)
        /\ \A n \in 1..(Len(found_instances) - 1) :
              found_instances[n].paragraph_idx <= found_instances[n + 1].paragraph_idx

\* a paragraph whose first run holds the phrase without its spaces only and
\* whose second run holds it as written: the second run is returned twice,
\* the first time before the first run
C21_Witness ==
    /\ pc = "located"
    /\ InternalSpace(search_text)
    /\ \E p \in 1..Len(doc.paragraphs) :
          /\ Len(doc.paragraphs[p].runs) = 2
          /\ ReturnedRuns(p) = <<2, 1, 2>>
          /\ TimesReturned(p, 2) = 2

(***************************************************************************)
(* Claims on the counters of the scan (specification Spec)                 *)
(***************************************************************************)
\* the fraction x lies in [lo, hi]
FracWithin(x, lo, hi) == x[2] > 0 /\ lo * x[2] <= x[1] /\ x[1] <= hi * x[2]

\* C22: in every state of a scan 0 <= format_correct_count <= found_count <=
\* total_terms and len(part2_results) <= len(part1_results) <= total_terms;
\* format_correct_count is 0 and part2_results is empty until total_terms
\* find results are recorded; overall_score lies in [0, 100].
C22_ScanInvariants ==
    /\ 0 <= results.format_correct_count
    /\ results.format_correct_count <= results.found_count
    /\ results.found_count <= results.total_terms
    /\ Len(results.part2_results) <= Len(results.part1_results)
    /\ Len(results.part1_results) <= results.total_terms
    /\ Len(results.part1_results) < results.total_terms
          => (results.format_correct_count = 0 /\ results.part2_results = << >>)
    /\ FracWithin(results.overall_score, 0, 100)

\* a scan in the middle of PART 2 that has judged some requirements correct
\* and some not
C22_Witness ==
    /\ pc = "part2"
    /\ 0 < results.format_correct_count
    /\ results.format_correct_count < Len(results.part2_results)
    /\ Len(results.part2_results) < Len(results.part1_results)

\* the kinds of FORMATTING_TERMS that no branch can judge correct
NeverCorrectKinds == {"underlineDotted", "underlineRed", "strikethroughDouble",
                      "spacingExpanded5", "spacingExpanded10", "spacingCondensed2"}

\* the number of requirements whose kind some branch can judge correct
JudgeableTerms ==
    Cardinality({n \in 1..Len(FORMATTING_TERMS) :
                    FORMATTING_TERMS[n].formatCheck \notin NeverCorrectKinds})

\* C23: with the built-in requirement list no verdict for underlineDotted,
\* underlineRed, strikethroughDouble or a spacing kind is correct, so
\* format_correct_count is at most 24 and overall_score at most 90 for every
\* document; a score of 100 is not reached.
C23_ScoreCeiling ==
    /\ \A n \in 1..Len(results.part2_results) :
          results.part2_results[n].format_check \in NeverCorrectKinds
              => ~results.part2_results[n].correct
    /\ JudgeableTerms = 24
    /\ results.format_correct_count <= 24
    /\ FracWithin(results.overall_score, 0, 90)
    /\ results.overall_score # <<100, 1>>

\* a finished scan of a document that carries every formatting asked for:
\* 24 requirements are judged correct and the score is 90
C23_Witness ==
    /\ pc = "done"
    /\ results.found_count = results.total_terms
    /\ results.format_correct_count = 24
    /\ results.overall_score = <<90, 1>>
    /\ \E n \in 1..Len(results.part2_results) :
          /\ results.part2_results[n].format_check = "underlineDotted"
          /\ ~results.part2_results[n].correct

====
